---- MODULE Spec2Model ----
(***************************************************************************)
(* Lunsara: client-side account, session, password-reset and cart logic.   *)
(*                                                                         *)
(* One browser tab: the AuthManager instance `auth` (src/auth.js), the     *)
(* quantity-aware per-identity cart script (src/unnamed/part_000, lines    *)
(* 1-92), the origin's localStorage and the cart badge element.            *)
(*                                                                         *)
(* Text (names, emails, phone numbers, passwords) is a sequence of         *)
(* one-character strings, so that trim, toLowerCase, length and the two    *)
(* validation patterns are computed character by character.  Identifiers   *)
(* and storage keys are strings built with ToString and \o, as the code    *)
(* builds them.  Time is Date.now() in milliseconds.                       *)
(***************************************************************************)
EXTENDS Integers, Sequences, FiniteSets, TLC

VARIABLES
    users,          \* auth.users: the in-memory directory (a sequence)
    currentUser,    \* auth.currentUser: the in-memory session, or Null
    localStorage,   \* the origin's storage: key string -> stored value
    badge,          \* the #cart-count element: present, innerText, style.display
    now,            \* the wall clock, Date.now()
    ticks,          \* how many times the clock was advanced (bounded)
    last,           \* the last call made and what it returned
    addCalls,       \* history: the addToCart calls, with the keys read and saved
    issued,         \* history: the reset tokens handed out, oldest first
    inbox,          \* storage events of other tabs not yet delivered to this tab
    shared          \* which users[i].profile object is also currentUser.profile (0: none)

vars == <<users, currentUser, localStorage, badge, now, ticks, last, addCalls, issued,
          inbox, shared>>

----------------------------------------------------------------------------
(* Bounds of the model. *)

MaxUsers == 2
MaxTicks == 2
MaxCartQuantity == 2
MaxIssued == 2
MaxInbox == 2
MaxEntries == 2

----------------------------------------------------------------------------
(* Values. *)

Null == [null |-> TRUE]

\* JSON.stringify / JSON.parse: the stored value is a serialized snapshot,
\* tagged so that a raw string (rememberMe, rememberedUser) is never taken
\* for a serialized value.
JSON_stringify(v) == [json |-> v]
JSON_parse(s) == IF s = Null THEN Null ELSE s.json

\* Date.prototype.toISOString and new Date(iso).getTime(): millisecond exact.
toISOString(t) == <<"iso", t>>
getTime(iso) == iso[2]

\* Number.prototype.toString of Date.now()
toString(n) == ToString(n)

----------------------------------------------------------------------------
(* Strings, character by character. *)

RECURSIVE trimStart(_)
trimStart(s) == IF s # <<>> /\ Head(s) = " " THEN trimStart(Tail(s)) ELSE s

RECURSIVE trimEnd(_)
trimEnd(s) ==
    IF s # <<>> /\ s[Len(s)] = " " THEN trimEnd(SubSeq(s, 1, Len(s) - 1)) ELSE s

trim(s) == trimEnd(trimStart(s))

UpperToLower ==
    [c \in {"A", "B", "C", "D"} |->
        CASE c = "A" -> "a" [] c = "B" -> "b" [] c = "C" -> "c" [] c = "D" -> "d"]

toLowerCase(s) ==
    [i \in DOMAIN s |-> IF s[i] \in DOMAIN UpperToLower THEN UpperToLower[s[i]] ELSE s[i]]

Digits == {"0", "1", "2", "3", "4", "5", "6", "7", "8", "9"}
IsDigit(c) == c \in Digits

\* /^[^\s@]+@[^\s@]+\.[^\s@]+$/ : one "@", no white space, and after the
\* "@" a "." with at least one character on each side of it.
isValidEmail(email) ==
    \E i \in DOMAIN email :
        /\ email[i] = "@"
        /\ i > 1
        /\ \A k \in DOMAIN email : email[k] # " " /\ (email[k] = "@" => k = i)
        /\ \E j \in DOMAIN email : email[j] = "." /\ j > i + 1 /\ j < Len(email)

\* /^[6-9]\d{9}$/ on phone.replace(/\D/g, '')
isValidPhone(phone) ==
    LET digits == SelectSeq(phone, IsDigit)
    IN  Len(digits) = 10 /\ digits[1] \in {"6", "7", "8", "9"}

validateRegistrationData(userData) ==
    IF userData.name = <<>> \/ Len(trim(userData.name)) < 2
    THEN [valid |-> FALSE, message |-> "Name must be at least 2 characters long"]
    ELSE IF userData.email = <<>> \/ ~isValidEmail(userData.email)
    THEN [valid |-> FALSE, message |-> "Please enter a valid email address"]
    ELSE IF userData.phone = <<>> \/ ~isValidPhone(userData.phone)
    THEN [valid |-> FALSE, message |-> "Please enter a valid phone number"]
    ELSE IF userData.password = <<>> \/ Len(userData.password) < 6
    THEN [valid |-> FALSE, message |-> "Password must be at least 6 characters long"]
    ELSE IF userData.password # userData.confirmPassword
    THEN [valid |-> FALSE, message |-> "Passwords do not match"]
    ELSE [valid |-> TRUE, message |-> ""]

----------------------------------------------------------------------------
(* localStorage. *)

getItem(ls, key) == IF key \in DOMAIN ls THEN ls[key] ELSE Null

setItem(ls, key, value) ==
    [k \in DOMAIN ls \cup {key} |-> IF k = key THEN value ELSE ls[k]]

removeItem(ls, key) == [k \in DOMAIN ls \ {key} |-> ls[k]]

----------------------------------------------------------------------------
(* The tab's world: what a call reads and writes.  Every operation below   *)
(* takes the world w and the clock reading t and returns the world it      *)
(* leaves, with the value it returns where it returns one.                 *)

World == [users |-> users, currentUser |-> currentUser,
          ls |-> localStorage, badge |-> badge, shared |-> shared]

RECURSIVE Sum(_)
Sum(cart) == IF cart = <<>> THEN 0 ELSE Head(cart).quantity + Sum(Tail(cart))

maxSessionAge == 24 * 60 * 60 * 1000

RECURSIVE logout(_, _)
RECURSIVE validateSession(_, _)

isLoggedIn(w, t) ==
    IF w.currentUser # Null
    THEN validateSession(w, t)
    ELSE [w |-> w, ret |-> FALSE]

getCurrentUser(w) == w.currentUser

\* getUserCart: the cart of the active key, with the key it was read from.
getUserCart(w, t) ==
    LET r == isLoggedIn(w, t)
        key == IF r.ret THEN "cart_" \o getCurrentUser(r.w).id ELSE "cart"
        stored == getItem(r.w.ls, key)
    IN  [w |-> r.w, key |-> key,
         ret |-> IF stored = Null THEN <<>> ELSE JSON_parse(stored)]

saveUserCart(w, t, cart) ==
    LET r == isLoggedIn(w, t)
        key == IF r.ret THEN "cart_" \o getCurrentUser(r.w).id ELSE "cart"
    IN  [w |-> [r.w EXCEPT !.ls = setItem(r.w.ls, key, JSON_stringify(cart))],
         key |-> key]

\* A variant of updateCartBadge that shows the number of lines.
updateCartBadge_countsLines(w, t) ==
    LET g == getUserCart(w, t)
        totalItems == Len(g.ret)
    IN  IF g.w.badge.present
        THEN [g.w EXCEPT !.badge = [present |-> TRUE, innerText |-> totalItems,
                                    display |-> IF totalItems > 0 THEN "flex" ELSE "none"]]
        ELSE g.w

updateCartBadge(w, t) ==
    LET g == getUserCart(w, t)
        totalItems == Sum(g.ret)
    IN  IF g.w.badge.present
        THEN [g.w EXCEPT !.badge = [present |-> TRUE, innerText |-> totalItems,
                                    display |-> IF totalItems > 0 THEN "flex" ELSE "none"]]
        ELSE g.w

\* updateUI: the navigation links are page decoration and are not modelled;
\* the badge refresh is.
updateUI(w, t) ==
    LET r == isLoggedIn(w, t)
    IN  updateCartBadge(r.w, t)

\* A variant of logout that also forgets the remembered email.
logout_forgetsEmail(w, t) ==
    updateUI([w EXCEPT !.currentUser = Null, !.shared = 0,
                       !.ls = removeItem(removeItem(removeItem(w.ls, "currentUser"),
                                                    "rememberMe"), "rememberedUser")], t)

logout(w, t) ==
    updateUI([w EXCEPT !.currentUser = Null, !.shared = 0,
                       !.ls = removeItem(removeItem(w.ls, "currentUser"), "rememberMe")], t)

\* A variant of validateSession that expires a session at 24 hours sharp.
validateSession_atLeast(w, t) ==
    IF w.currentUser # Null
    THEN LET sessionAge == t - getTime(w.currentUser.loginTime)
         IN  IF sessionAge >= maxSessionAge
             THEN [w |-> logout(w, t), ret |-> FALSE]
             ELSE [w |-> w, ret |-> TRUE]
    ELSE [w |-> w, ret |-> FALSE]

validateSession(w, t) ==
    IF w.currentUser # Null
    THEN LET sessionAge == t - getTime(w.currentUser.loginTime)
         IN  IF sessionAge > maxSessionAge
             THEN [w |-> logout(w, t), ret |-> FALSE]
             ELSE [w |-> w, ret |-> TRUE]
    ELSE [w |-> w, ret |-> FALSE]

----------------------------------------------------------------------------
(* Account directory and session manager (class AuthManager). *)

\* Array.prototype.find / findIndex over the set of the indices whose
\* element satisfies the predicate: the first of them, 1-based; 0 when none.
findIndex(hits) ==
    IF hits = {} THEN 0 ELSE CHOOSE i \in hits : \A j \in hits : i <= j

\* { ...target, ...updates }
merge(target, updates) ==
    [k \in DOMAIN target \cup DOMAIN updates |->
        IF k \in DOMAIN updates THEN updates[k] ELSE target[k]]

saveUsers(w) == [w EXCEPT !.ls = setItem(w.ls, "users", JSON_stringify(w.users))]

\* A variant of login that drops the session when the credentials match
\* nobody.
login_dropsSession(w, t, email, password) ==
    LET Matches(u) == toLowerCase(u.email) = toLowerCase(email) /\ u.password = password
        i == findIndex({k \in DOMAIN w.users : Matches(w.users[k])})
    IN  IF i # 0
        THEN LET user == w.users[i]
                 session == [id |-> user.id, name |-> user.name, email |-> user.email,
                             loginTime |-> toISOString(t)]
                 ls1 == setItem(w.ls, "currentUser", JSON_stringify(session))
                 ls2 == IF "rememberMe" \in DOMAIN ls1 /\ ls1["rememberMe"] = "true"
                        THEN setItem(ls1, "rememberedUser", email)
                        ELSE ls1
             IN  [w |-> [w EXCEPT !.currentUser = session, !.ls = ls2, !.shared = 0],
                  ret |-> [success |-> TRUE, message |-> "Login successful",
                           user |-> session]]
        ELSE [w |-> [w EXCEPT !.currentUser = Null, !.shared = 0,
                              !.ls = removeItem(w.ls, "currentUser")],
              ret |-> [success |-> FALSE, message |-> "Invalid email or password"]]

login(w, t, email, password) ==
    LET Matches(u) == toLowerCase(u.email) = toLowerCase(email) /\ u.password = password
        i == findIndex({k \in DOMAIN w.users : Matches(w.users[k])})
    IN  IF i # 0
        THEN LET user == w.users[i]
                 session == [id |-> user.id, name |-> user.name, email |-> user.email,
                             loginTime |-> toISOString(t)]
                 ls1 == setItem(w.ls, "currentUser", JSON_stringify(session))
                 ls2 == IF "rememberMe" \in DOMAIN ls1 /\ ls1["rememberMe"] = "true"
                        THEN setItem(ls1, "rememberedUser", email)
                        ELSE ls1
             IN  [w |-> [w EXCEPT !.currentUser = session, !.ls = ls2, !.shared = 0],
                  ret |-> [success |-> TRUE, message |-> "Login successful",
                           user |-> session]]
        ELSE [w |-> w,
              ret |-> [success |-> FALSE, message |-> "Invalid email or password"]]

\* A variant of register that stores the email as typed.
register_emailAsTyped(w, t, userData) ==
    LET validation == validateRegistrationData(userData)
        SameEmail(user) == toLowerCase(user.email) = toLowerCase(userData.email)
        existingUser == findIndex({k \in DOMAIN w.users : SameEmail(w.users[k])})
    IN  IF ~validation.valid
        THEN [w |-> w, ret |-> [success |-> FALSE, message |-> validation.message]]
        ELSE IF existingUser # 0
        THEN [w |-> w, ret |-> [success |-> FALSE,
                                message |-> "An account with this email already exists"]]
        ELSE LET newUser == [id |-> toString(t),
                             name |-> trim(userData.name),
                             email |-> trim(userData.email),
                             phone |-> trim(userData.phone),
                             password |-> userData.password,
                             createdAt |-> toISOString(t),
                             profile |-> [addresses |-> <<>>, orders |-> <<>>,
                                          preferences |-> <<>>]]
                 w1 == saveUsers([w EXCEPT !.users = Append(w.users, newUser)])
                 w2 == login(w1, t, newUser.email, userData.password).w
             IN  [w |-> w2,
                  ret |-> [success |-> TRUE, message |-> "Account created successfully",
                           user |-> newUser]]

\* A variant of register that looks for the exact email only.
register_exactEmail(w, t, userData) ==
    LET validation == validateRegistrationData(userData)
        SameEmail(user) == user.email = userData.email
        existingUser == findIndex({k \in DOMAIN w.users : SameEmail(w.users[k])})
    IN  IF ~validation.valid
        THEN [w |-> w, ret |-> [success |-> FALSE, message |-> validation.message]]
        ELSE IF existingUser # 0
        THEN [w |-> w, ret |-> [success |-> FALSE,
                                message |-> "An account with this email already exists"]]
        ELSE LET newUser == [id |-> toString(t),
                             name |-> trim(userData.name),
                             email |-> trim(toLowerCase(userData.email)),
                             phone |-> trim(userData.phone),
                             password |-> userData.password,
                             createdAt |-> toISOString(t),
                             profile |-> [addresses |-> <<>>, orders |-> <<>>,
                                          preferences |-> <<>>]]
                 w1 == saveUsers([w EXCEPT !.users = Append(w.users, newUser)])
                 w2 == login(w1, t, newUser.email, userData.password).w
             IN  [w |-> w2,
                  ret |-> [success |-> TRUE, message |-> "Account created successfully",
                           user |-> newUser]]

register(w, t, userData) ==
    LET validation == validateRegistrationData(userData)
        SameEmail(user) == toLowerCase(user.email) = toLowerCase(userData.email)
        existingUser == findIndex({k \in DOMAIN w.users : SameEmail(w.users[k])})
    IN  IF ~validation.valid
        THEN [w |-> w, ret |-> [success |-> FALSE, message |-> validation.message]]
        ELSE IF existingUser # 0
        THEN [w |-> w, ret |-> [success |-> FALSE,
                                message |-> "An account with this email already exists"]]
        ELSE LET newUser == [id |-> toString(t),
                             name |-> trim(userData.name),
                             email |-> trim(toLowerCase(userData.email)),
                             phone |-> trim(userData.phone),
                             password |-> userData.password,
                             createdAt |-> toISOString(t),
                             profile |-> [addresses |-> <<>>, orders |-> <<>>,
                                          preferences |-> <<>>]]
                 w1 == saveUsers([w EXCEPT !.users = Append(w.users, newUser)])
                 w2 == login(w1, t, newUser.email, userData.password).w
             IN  [w |-> w2,
                  ret |-> [success |-> TRUE, message |-> "Account created successfully",
                           user |-> newUser]]

getUserProfile(w, userId) ==
    LET HasId(user) == user.id = userId
        i == findIndex({k \in DOMAIN w.users : HasId(w.users[k])})
    IN  IF i = 0 THEN Null ELSE w.users[i]

\* A variant of updateUserProfile that updates the session of any identity.
\* The spreads of updateUserProfile copy references: when the updates carry
\* a 'profile', the identity holds that object afterwards, and so does the
\* session when it is merged too (merged = TRUE).  An identity left alone by
\* the updates, or handed in as the updates themselves (addUserAddress,
\* addUserOrder), keeps the object it had.
sharedAfter(w, userIndex, updates, merged) ==
    IF "profile" \notin DOMAIN updates
    THEN w.shared
    ELSE IF merged
    THEN userIndex
    ELSE IF updates # w.users[userIndex] /\ w.shared = userIndex
    THEN 0
    ELSE w.shared

updateUserProfile_anySession(w, userId, updates) ==
    LET HasId(user) == user.id = userId
        userIndex == findIndex({k \in DOMAIN w.users : HasId(w.users[k])})
    IN  IF userIndex = 0
        THEN [w |-> w, ret |-> [success |-> FALSE, message |-> "User not found"]]
        ELSE LET w1 == saveUsers([w EXCEPT !.users[userIndex] = merge(@, updates)])
                 w2 == IF w1.currentUser # Null
                       THEN LET session == merge(w1.currentUser, updates)
                            IN  [w1 EXCEPT !.currentUser = session,
                                           !.ls = setItem(w1.ls, "currentUser",
                                                          JSON_stringify(session)),
                                           !.shared = sharedAfter(w, userIndex, updates,
                                                                  TRUE)]
                       ELSE [w1 EXCEPT !.shared = sharedAfter(w, userIndex, updates,
                                                              FALSE)]
             IN  [w |-> w2,
                  ret |-> [success |-> TRUE, message |-> "Profile updated successfully"]]

updateUserProfile(w, userId, updates) ==
    LET HasId(user) == user.id = userId
        userIndex == findIndex({k \in DOMAIN w.users : HasId(w.users[k])})
    IN  IF userIndex = 0
        THEN [w |-> w, ret |-> [success |-> FALSE, message |-> "User not found"]]
        ELSE LET w1 == saveUsers([w EXCEPT !.users[userIndex] = merge(@, updates)])
                 w2 == IF w1.currentUser # Null /\ w1.currentUser.id = userId
                       THEN LET session == merge(w1.currentUser, updates)
                            IN  [w1 EXCEPT !.currentUser = session,
                                           !.ls = setItem(w1.ls, "currentUser",
                                                          JSON_stringify(session)),
                                           !.shared = sharedAfter(w, userIndex, updates,
                                                                  TRUE)]
                       ELSE [w1 EXCEPT !.shared = sharedAfter(w, userIndex, updates,
                                                              FALSE)]
             IN  [w |-> w2,
                  ret |-> [success |-> TRUE, message |-> "Profile updated successfully"]]

\* user.profile.addresses || [] and user.profile.orders || []: the list of
\* a profile, empty when the profile has no such field.
addressesOf(profile) ==
    IF "addresses" \in DOMAIN profile THEN profile.addresses ELSE <<>>

ordersOf(profile) ==
    IF "orders" \in DOMAIN profile THEN profile.orders ELSE <<>>

\* A push onto a list of users[i].profile changes that object in place: the
\* session sees it too when its 'profile' is the same object.
pushed(w, i) ==
    IF w.shared = i /\ w.currentUser # Null
    THEN [w EXCEPT !.currentUser = merge(@, [profile |-> w.users[i].profile])]
    ELSE w

\* addUserAddress pushes onto the address list of the stored identity itself
\* (the object getUserProfile returned), creating the list when the profile
\* has none, then hands that whole identity to updateUserProfile as the
\* updates.
addUserAddress(w, t, userId, address) ==
    LET HasId(user) == user.id = userId
        i == findIndex({k \in DOMAIN w.users : HasId(w.users[k])})
    IN  IF i = 0
        THEN [w |-> w, ret |-> [success |-> FALSE, message |-> "User not found"]]
        ELSE LET stamped == merge(address, [id |-> toString(t),
                                             createdAt |-> toISOString(t)])
                 w1 == pushed([w EXCEPT !.users[i].profile =
                            merge(@, [addresses |-> Append(addressesOf(@), stamped)])], i)
                 w2 == updateUserProfile(w1, userId, w1.users[i]).w
             IN  [w |-> w2,
                  ret |-> [success |-> TRUE, message |-> "Address added successfully",
                           address |-> stamped]]

getUserAddresses(w, userId) ==
    LET user == getUserProfile(w, userId)
    IN  IF user = Null THEN <<>> ELSE addressesOf(user.profile)

getUserOrders(w, userId) ==
    LET user == getUserProfile(w, userId)
    IN  IF user = Null THEN <<>> ELSE ordersOf(user.profile)

addUserOrder(w, userId, order) ==
    LET HasId(user) == user.id = userId
        i == findIndex({k \in DOMAIN w.users : HasId(w.users[k])})
    IN  IF i = 0
        THEN w
        ELSE LET w1 == pushed([w EXCEPT !.users[i].profile =
                                     merge(@, [orders |-> Append(ordersOf(@), order)])], i)
             IN  updateUserProfile(w1, userId, w1.users[i]).w

changePassword(w, userId, oldPassword, newPassword) ==
    LET user == getUserProfile(w, userId)
    IN  IF user = Null
        THEN [w |-> w, ret |-> [success |-> FALSE, message |-> "User not found"]]
        ELSE IF user.password # oldPassword
        THEN [w |-> w, ret |-> [success |-> FALSE,
                                message |-> "Current password is incorrect"]]
        ELSE IF Len(newPassword) < 6
        THEN [w |-> w, ret |-> [success |-> FALSE,
                                message |-> "Password must be at least 6 characters long"]]
        ELSE [w |-> updateUserProfile(w, userId, [password |-> newPassword]).w,
              ret |-> [success |-> TRUE, message |-> "Password changed successfully"]]

----------------------------------------------------------------------------
(* Password reset flow. *)

resetTokenLifetime == 15 * 60 * 1000

\* Date.now().toString() + Math.random().toString(36).substr(2, 9): the
\* random suffix is the input `suffix`.
\* A variant of requestPasswordReset that keeps a token record already there.
requestPasswordReset_keepsFirst(w, t, email, suffix) ==
    LET SameEmail(u) == toLowerCase(u.email) = toLowerCase(email)
        i == findIndex({k \in DOMAIN w.users : SameEmail(w.users[k])})
    IN  IF i = 0
        THEN [w |-> w, ret |-> [success |-> FALSE,
                                message |-> "No account found with this email address"]]
        ELSE LET resetToken == toString(t) \o suffix
                 resetData == [email |-> email, token |-> resetToken,
                               expires |-> t + resetTokenLifetime,
                               userId |-> w.users[i].id]
             IN  [w |-> IF "passwordResetToken" \in DOMAIN w.ls
                        THEN w
                        ELSE [w EXCEPT !.ls = setItem(w.ls, "passwordResetToken",
                                                      JSON_stringify(resetData))],
                  ret |-> [success |-> TRUE,
                           message |-> "Password reset instructions have been sent to your email",
                           token |-> resetToken]]

requestPasswordReset(w, t, email, suffix) ==
    LET SameEmail(u) == toLowerCase(u.email) = toLowerCase(email)
        i == findIndex({k \in DOMAIN w.users : SameEmail(w.users[k])})
    IN  IF i = 0
        THEN [w |-> w, ret |-> [success |-> FALSE,
                                message |-> "No account found with this email address"]]
        ELSE LET resetToken == toString(t) \o suffix
                 resetData == [email |-> email, token |-> resetToken,
                               expires |-> t + resetTokenLifetime,
                               userId |-> w.users[i].id]
             IN  [w |-> [w EXCEPT !.ls = setItem(w.ls, "passwordResetToken",
                                                 JSON_stringify(resetData))],
                  ret |-> [success |-> TRUE,
                           message |-> "Password reset instructions have been sent to your email",
                           token |-> resetToken]]

\* A variant of resetPassword that drops the record on a too short secret.
resetPassword_burnsOnShortSecret(w, t, token, newPassword) ==
    LET resetData == JSON_parse(getItem(w.ls, "passwordResetToken"))
    IN  IF resetData = Null
        THEN [w |-> w, ret |-> [success |-> FALSE,
                                message |-> "Invalid or expired reset token"]]
        ELSE IF resetData.token # token
        THEN [w |-> w, ret |-> [success |-> FALSE, message |-> "Invalid reset token"]]
        ELSE IF t > resetData.expires
        THEN [w |-> [w EXCEPT !.ls = removeItem(w.ls, "passwordResetToken")],
              ret |-> [success |-> FALSE, message |-> "Reset token has expired"]]
        ELSE IF Len(newPassword) < 6
        THEN [w |-> [w EXCEPT !.ls = removeItem(w.ls, "passwordResetToken")],
              ret |-> [success |-> FALSE,
                       message |-> "Password must be at least 6 characters long"]]
        ELSE LET updateResult == updateUserProfile(w, resetData.userId,
                                                   [password |-> newPassword])
             IN  IF updateResult.ret.success
                 THEN [w |-> [updateResult.w EXCEPT
                                  !.ls = removeItem(updateResult.w.ls, "passwordResetToken")],
                       ret |-> [success |-> TRUE,
                                message |-> "Password reset successfully"]]
                 ELSE [w |-> updateResult.w,
                       ret |-> [success |-> FALSE,
                                message |-> "Error resetting password"]]

resetPassword(w, t, token, newPassword) ==
    LET resetData == JSON_parse(getItem(w.ls, "passwordResetToken"))
    IN  IF resetData = Null
        THEN [w |-> w, ret |-> [success |-> FALSE,
                                message |-> "Invalid or expired reset token"]]
        ELSE IF resetData.token # token
        THEN [w |-> w, ret |-> [success |-> FALSE, message |-> "Invalid reset token"]]
        ELSE IF t > resetData.expires
        THEN [w |-> [w EXCEPT !.ls = removeItem(w.ls, "passwordResetToken")],
              ret |-> [success |-> FALSE, message |-> "Reset token has expired"]]
        ELSE IF Len(newPassword) < 6
        THEN [w |-> w, ret |-> [success |-> FALSE,
                                message |-> "Password must be at least 6 characters long"]]
        ELSE LET updateResult == updateUserProfile(w, resetData.userId,
                                                   [password |-> newPassword])
             IN  IF updateResult.ret.success
                 THEN [w |-> [updateResult.w EXCEPT
                                  !.ls = removeItem(updateResult.w.ls, "passwordResetToken")],
                       ret |-> [success |-> TRUE,
                                message |-> "Password reset successfully"]]
                 ELSE [w |-> updateResult.w,
                       ret |-> [success |-> FALSE,
                                message |-> "Error resetting password"]]

\* A variant of validateResetToken that leaves an expired record in place.
validateResetToken_keepsExpired(w, t, token) ==
    LET resetData == JSON_parse(getItem(w.ls, "passwordResetToken"))
    IN  IF resetData = Null
        THEN [w |-> w, ret |-> [valid |-> FALSE,
                                message |-> "Invalid or expired reset token"]]
        ELSE IF resetData.token # token
        THEN [w |-> w, ret |-> [valid |-> FALSE, message |-> "Invalid reset token"]]
        ELSE IF t > resetData.expires
        THEN [w |-> w,
              ret |-> [valid |-> FALSE, message |-> "Reset token has expired"]]
        ELSE [w |-> w, ret |-> [valid |-> TRUE, email |-> resetData.email]]

validateResetToken(w, t, token) ==
    LET resetData == JSON_parse(getItem(w.ls, "passwordResetToken"))
    IN  IF resetData = Null
        THEN [w |-> w, ret |-> [valid |-> FALSE,
                                message |-> "Invalid or expired reset token"]]
        ELSE IF resetData.token # token
        THEN [w |-> w, ret |-> [valid |-> FALSE, message |-> "Invalid reset token"]]
        ELSE IF t > resetData.expires
        THEN [w |-> [w EXCEPT !.ls = removeItem(w.ls, "passwordResetToken")],
              ret |-> [valid |-> FALSE, message |-> "Reset token has expired"]]
        ELSE [w |-> w, ret |-> [valid |-> TRUE, email |-> resetData.email]]

----------------------------------------------------------------------------
(* Cart store (the quantity-aware, per-identity script). *)

\* addToCart reads the clock three times, through the isLoggedIn of
\* getUserCart, of saveUserCart and of updateCartBadge: t, t + d1 and
\* t + d1 + d2.
addToCart(w, t, d1, d2, name, price, image) ==
    LET g == getUserCart(w, t)
        HasName(item) == item.name = name
        existingProductIndex == findIndex({k \in DOMAIN g.ret : HasName(g.ret[k])})
        cart == IF existingProductIndex > 0
                THEN [g.ret EXCEPT ![existingProductIndex].quantity = @ + 1]
                ELSE Append(g.ret, [name |-> name, price |-> price, image |-> image,
                                    quantity |-> 1])
        s == saveUserCart(g.w, t + d1, cart)
    IN  [w |-> updateCartBadge(s.w, t + d1 + d2),
         readKey |-> g.key, savedKey |-> s.key, cart |-> cart]

----------------------------------------------------------------------------
(* Tabs of one origin: they share localStorage, each has its own            *)
(* AuthManager, and a write of one tab that changes a key is notified to   *)
(* the others by a 'storage' event, delivered later.                       *)

\* The constructor on a page load: the fields start empty, init loads the
\* directory and the session from the storage, and a loaded session is
\* validated at once.
loadUsers(w) ==
    [w EXCEPT !.users = IF getItem(w.ls, "users") = Null
                        THEN <<>> ELSE JSON_parse(getItem(w.ls, "users"))]

loadCurrentUser(w, t) ==
    LET userData == getItem(w.ls, "currentUser")
    IN  IF userData # Null
        THEN validateSession([w EXCEPT !.currentUser = JSON_parse(userData)], t).w
        ELSE w

init(w, t) ==
    loadCurrentUser(loadUsers([w EXCEPT !.users = <<>>, !.currentUser = Null,
                                        !.shared = 0]), t)

\* The handler setupEventListeners registers for 'storage' events.
onStorage(w, t, e) ==
    IF e.key = "currentUser" /\ e.newValue = Null
    THEN logout(w, t)
    ELSE w

\* The keys AuthManager writes, in the order login and logout write them.
SessionKeys == <<"currentUser", "rememberMe", "rememberedUser">>

\* The events a tab's writes raise in the other tabs: one per key whose
\* stored value changed, with its new value held in a box (null when the
\* key was removed).
RECURSIVE StorageEvents(_, _, _)
StorageEvents(keys, old, new) ==
    IF keys = <<>>
    THEN <<>>
    ELSE LET key == Head(keys)
             rest == StorageEvents(Tail(keys), old, new)
             same == IF key \in DOMAIN old /\ key \in DOMAIN new
                     THEN old[key] = new[key]
                     ELSE key \notin DOMAIN old /\ key \notin DOMAIN new
             newValue == IF key \in DOMAIN new THEN [value |-> new[key]] ELSE Null
         IN  IF same
             THEN rest
             ELSE <<[key |-> key, newValue |-> newValue]>> \o rest

\* The AuthManager of another tab, as its constructor builds it from the
\* storage: loadUsers and loadCurrentUser.
OtherTab ==
    [users |-> IF getItem(localStorage, "users") = Null
               THEN <<>> ELSE JSON_parse(getItem(localStorage, "users")),
     currentUser |-> JSON_parse(getItem(localStorage, "currentUser")),
     ls |-> localStorage,
     badge |-> badge,
     shared |-> 0]

----------------------------------------------------------------------------
(* Inputs. *)

NameAl == <<"A", "l">>
NameBo == <<"B", "o">>
NameShort == <<" ", "A", " ">>

EmailLower == <<"a", "@", "b", ".", "c">>
EmailUpper == <<"A", "@", "b", ".", "c">>
EmailOther == <<"d", "@", "b", ".", "c">>
EmailBad == <<"a", "b", ".", "c">>
Emails == {EmailLower, EmailUpper, EmailOther}
LoginEmails == {EmailUpper, EmailOther}

PhoneGood == <<"9", "8", "7", "6", "5", "-", "4", "3", "2", "1", "0">>
PhoneBad == <<"1", "2", "3", "4", "5", "6", "7", "8", "9", "0">>

Secret1 == <<"s", "e", "c", "r", "e", "t">>
Secret2 == <<"h", "u", "n", "t", "e", "r">>
SecretShort == <<"a", "b", "c">>
Secrets == {Secret1, Secret2}

Form == [name |-> NameAl, email |-> EmailLower, phone |-> PhoneGood,
         password |-> Secret1, confirmPassword |-> Secret1]

ValidRegistrations == {[Form EXCEPT !.email = e] : e \in Emails}

InvalidRegistrations ==
    { [Form EXCEPT !.name = NameShort],
      [Form EXCEPT !.email = EmailBad],
      [Form EXCEPT !.phone = PhoneBad],
      [Form EXCEPT !.password = SecretShort, !.confirmPassword = SecretShort],
      [Form EXCEPT !.confirmPassword = Secret2] }

Registrations == ValidRegistrations \cup InvalidRegistrations

\* The identifiers a caller may pass: those in the directory and one nobody has.
KnownIds == {users[i].id : i \in DOMAIN users}
Ids == KnownIds \cup {"0"}

\* The reset flow: who registers, the random suffixes Math.random may
\* give, the tokens a caller may present (those handed out and one that
\* never was), the new secrets.
ResetRegistrations == {[Form EXCEPT !.email = e] : e \in {EmailLower, EmailOther}}
Suffixes == {"x"}
Tokens == {issued[i].token : i \in DOMAIN issued} \cup {"0z"}
NewSecrets == {Secret2, SecretShort}

\* The cart pages: who registers, the products on sale, and how far the
\* clock moves between two of the clock readings of one addToCart call
\* and between two calls.
CartRegistrations == {Form}
Products == {"Rose", "Lily"}
ClockDrift == {0, 1}
CartSteps == {maxSessionAge}

\* The profile pages: the fields a caller may update (an email another
\* identity may have, a name, the preferences of the profile), the
\* addresses and orders it may add.
NewsletterProfile == [preferences |-> <<"newsletter">>]
ProfileUpdates ==
    {[email |-> EmailLower], [name |-> NameBo], [profile |-> NewsletterProfile]}
Addresses == {[city |-> "Pune"]}
Orders == {[total |-> 10]}
ProfileSteps == {1}

\* The identifiers a caller in another tab may pass: those of the stored
\* directory.
OtherTabIds == {OtherTab.users[i].id : i \in DOMAIN OtherTab.users}

EmailUpdates == {[email |-> EmailLower]}
IdUpdates == {[id |-> "2"], [id |-> "3"]}

\* How far the clock moves between two calls: a millisecond, or the maximal
\* age of a session, or the lifetime of a reset token.
SessionSteps == {1, maxSessionAge}
TokenSteps == {1, resetTokenLifetime}

----------------------------------------------------------------------------
(* The state after construction on a page whose storage holds no account   *)
(* and the login page's remember-me flag (logout removes the flag).  Init  *)
(* is a page with a badge element; InitAnyPage also covers a page without. *)

InitWith(badges) ==
    /\ users = <<>>
    /\ currentUser = Null
    /\ localStorage = [k \in {"rememberMe"} |-> "true"]
    /\ badge \in {[present |-> p, innerText |-> 0, display |-> ""] : p \in badges}
    /\ now = 1
    /\ ticks = 0
    /\ last = [op |-> "init"]
    /\ addCalls = <<>>
    /\ issued = <<>>
    /\ inbox = <<>>
    /\ shared = 0

Init == InitWith({TRUE})
InitAnyPage == InitWith(BOOLEAN)

Apply(w) ==
    /\ users' = w.users
    /\ currentUser' = w.currentUser
    /\ localStorage' = w.ls
    /\ badge' = w.badge
    /\ shared' = w.shared

----------------------------------------------------------------------------
(* Actions: one call each. *)

Tick(steps) ==
    /\ ticks < MaxTicks
    /\ \E step \in steps : now' = now + step
    /\ ticks' = ticks + 1
    /\ last' = [op |-> "tick"]
    /\ UNCHANGED <<users, currentUser, localStorage, badge, addCalls, issued, inbox,
                   shared>>

Register(userData) ==
    \E r \in {register(World, now, userData)} :
        /\ Len(r.w.users) <= MaxUsers
        /\ Apply(r.w)
        /\ last' = [op |-> "register", success |-> r.ret.success,
                    duplicate |-> r.ret.message = "An account with this email already exists"]
        /\ UNCHANGED <<now, ticks, addCalls, issued, inbox>>

Login(email, password) ==
    \E r \in {login(World, now, email, password)} :
        /\ Apply(r.w)
        /\ last' = [op |-> "login", ret |-> r.ret]
        /\ UNCHANGED <<now, ticks, addCalls, issued, inbox>>

Logout ==
    /\ Apply(logout(World, now))
    /\ last' = [op |-> "logout", hadSession |-> currentUser # Null]
    /\ UNCHANGED <<now, ticks, addCalls, issued, inbox>>

IsLoggedIn ==
    \E r \in {isLoggedIn(World, now)} :
        /\ Apply(r.w)
        /\ last' = [op |-> "isLoggedIn", hadSession |-> currentUser # Null,
                    ret |-> r.ret]
        /\ UNCHANGED <<now, ticks, addCalls, issued, inbox>>

UpdateUserProfile(userId, updates) ==
    \E r \in {updateUserProfile(World, userId, updates)} :
        /\ Apply(r.w)
        /\ last' = [op |-> "updateUserProfile", ret |-> r.ret]
        /\ UNCHANGED <<now, ticks, addCalls, issued, inbox>>

\* A successful request hands out a token: the history keeps it with the
\* email it was asked for and the clock reading of the request.
RequestPasswordReset(email, suffix) ==
    \E r \in {requestPasswordReset(World, now, email, suffix)} :
        /\ Len(issued) < MaxIssued
        /\ Apply(r.w)
        /\ last' = [op |-> "requestPasswordReset", success |-> r.ret.success]
        /\ issued' = IF r.ret.success
                     THEN Append(issued, [token |-> r.ret.token, email |-> email,
                                          at |-> now])
                     ELSE issued
        /\ UNCHANGED <<now, ticks, addCalls, inbox>>

ResetPassword(token, newPassword) ==
    \E r \in {resetPassword(World, now, token, newPassword)} :
        /\ Apply(r.w)
        /\ last' = [op |-> "resetPassword", token |-> token, ret |-> r.ret]
        /\ UNCHANGED <<now, ticks, addCalls, issued, inbox>>

ValidateResetToken(token) ==
    \E r \in {validateResetToken(World, now, token)} :
        /\ Apply(r.w)
        /\ last' = [op |-> "validateResetToken", token |-> token, ret |-> r.ret]
        /\ UNCHANGED <<now, ticks, addCalls, issued, inbox>>

\* An addToCart call: the history keeps its product with the key the cart
\* was read from and the key it was saved under.
AddToCart(name, d1, d2) ==
    \E r \in {addToCart(World, now, d1, d2, name, 10, "img")} :
        /\ Len(addCalls) < MaxCartQuantity
        /\ Apply(r.w)
        /\ now' = now + d1 + d2
        /\ addCalls' = Append(addCalls, [name |-> name, readKey |-> r.readKey,
                                         savedKey |-> r.savedKey])
        /\ last' = [op |-> "addToCart", name |-> name]
        /\ UNCHANGED <<ticks, issued, inbox>>

UpdateCartBadge ==
    /\ Apply(updateCartBadge(World, now))
    /\ last' = [op |-> "updateCartBadge", hadSession |-> currentUser # Null]
    /\ UNCHANGED <<now, ticks, addCalls, issued, inbox>>

\* The page is loaded again: a new document, and a new AuthManager built
\* from the storage the last page left.
Reload ==
    /\ Apply(init([World EXCEPT !.badge = [present |-> badge.present, innerText |-> 0,
                                           display |-> ""]], now))
    /\ last' = [op |-> "init"]
    /\ UNCHANGED <<now, ticks, addCalls, issued, inbox>>

\* Another tab writes the storage; this tab is notified later.
OtherTabWrites(ls) ==
    /\ Len(inbox) + Len(StorageEvents(SessionKeys, localStorage, ls)) <= MaxInbox
    /\ localStorage' = ls
    /\ inbox' = inbox \o StorageEvents(SessionKeys, localStorage, ls)
    /\ UNCHANGED <<users, currentUser, badge, now, ticks, addCalls, issued, shared>>

OtherTabLogin(email, password) ==
    \E r \in {login(OtherTab, now, email, password)} :
        /\ r.ret.success
        /\ OtherTabWrites(r.w.ls)
        /\ last' = [op |-> "otherTabLogin"]

OtherTabLogout ==
    /\ OtherTabWrites(logout(OtherTab, now).ls)
    /\ last' = [op |-> "otherTabLogout"]

OtherTabRegister(userData) ==
    \E r \in {register(OtherTab, now, userData)} :
        /\ r.ret.success
        /\ Len(r.w.users) <= MaxUsers
        /\ OtherTabWrites(r.w.ls)
        /\ last' = [op |-> "otherTabRegister"]

OtherTabChangePassword(userId, oldPassword, newPassword) ==
    \E r \in {changePassword(OtherTab, userId, oldPassword, newPassword)} :
        /\ r.ret.success
        /\ OtherTabWrites(r.w.ls)
        /\ last' = [op |-> "otherTabChangePassword"]

\* The oldest pending storage event is delivered to this tab's handler.
StorageEvent ==
    /\ inbox # <<>>
    /\ Apply(onStorage(World, now, Head(inbox)))
    /\ inbox' = Tail(inbox)
    /\ last' = [op |-> "storage", key |-> Head(inbox).key,
                removed |-> Head(inbox).newValue = Null]
    /\ UNCHANGED <<now, ticks, addCalls, issued>>

ChangePassword(userId, oldPassword, newPassword) ==
    \E r \in {changePassword(World, userId, oldPassword, newPassword)} :
        /\ Apply(r.w)
        /\ last' = [op |-> "changePassword", ret |-> r.ret]
        /\ UNCHANGED <<now, ticks, addCalls, issued, inbox>>

\* The lists of a profile are kept within MaxEntries entries.
AddUserAddress(userId, address) ==
    \E r \in {addUserAddress(World, now, userId, address)} :
        /\ Len(getUserAddresses(r.w, userId)) <= MaxEntries
        /\ Apply(r.w)
        /\ last' = [op |-> "addUserAddress", success |-> r.ret.success]
        /\ UNCHANGED <<now, ticks, addCalls, issued, inbox>>

AddUserOrder(userId, order) ==
    \E w \in {addUserOrder(World, userId, order)} :
        /\ Len(getUserOrders(w, userId)) <= MaxEntries
        /\ Apply(w)
        /\ last' = [op |-> "addUserOrder"]
        /\ UNCHANGED <<now, ticks, addCalls, issued, inbox>>

Next ==
    \/ Tick(SessionSteps)
    \/ \E userData \in Registrations : Register(userData)
    \/ \E email \in LoginEmails, password \in Secrets : Login(email, password)
    \/ Logout
    \/ IsLoggedIn
    \/ \E userId \in Ids, updates \in EmailUpdates : UpdateUserProfile(userId, updates)

Spec == Init /\ [][Next]_vars

\* The password reset flow: accounts are created, tokens requested,
\* validated and used, while the clock runs past their lifetime.
NextReset ==
    \/ Tick(TokenSteps)
    \/ \E userData \in ResetRegistrations : Register(userData)
    \/ \E email \in LoginEmails, suffix \in Suffixes : RequestPasswordReset(email, suffix)
    \/ \E token \in Tokens, newPassword \in NewSecrets : ResetPassword(token, newPassword)
    \/ \E token \in Tokens : ValidateResetToken(token)

SpecReset == Init /\ [][NextReset]_vars

\* The cart pages: an account is created, its session ends or expires,
\* products are added and the badge is refreshed, on pages with and
\* without a badge element.
NextCart ==
    \/ Tick(CartSteps)
    \/ \E userData \in CartRegistrations : Register(userData)
    \/ Logout
    \/ \E name \in Products, d1 \in ClockDrift, d2 \in ClockDrift : AddToCart(name, d1, d2)
    \/ UpdateCartBadge

SpecCart == InitAnyPage /\ [][NextCart]_vars

\* Several tabs: an account is created in this tab, this tab and other
\* tabs log in, other tabs log out, and the storage events reach this tab.
NextTabs ==
    \/ \E userData \in CartRegistrations : Register(userData)
    \/ Login(EmailUpper, Secret1)
    \/ OtherTabLogin(EmailLower, Secret1)
    \/ OtherTabLogout
    \/ StorageEvent
    \/ Tick(SessionSteps)

SpecTabs == Init /\ [][NextTabs]_vars

\* Sessions: an account is created, it logs in and out, asks for a reset
\* token and fills carts, so that logout meets every kind of stored key.
NextSession ==
    \/ \E userData \in CartRegistrations : Register(userData)
    \/ Login(EmailUpper, Secret1)
    \/ Logout
    \/ RequestPasswordReset(EmailUpper, "x")
    \/ \E name \in Products : AddToCart(name, 0, 0)
    \/ Tick(CartSteps)

SpecSession == Init /\ [][NextSession]_vars

\* The profile pages: accounts are created at different clock readings
\* or at the same one, and their fields and secrets are changed.
NextProfile ==
    \/ Tick(ProfileSteps)
    \/ \E userData \in ResetRegistrations : Register(userData)
    \/ \E userId \in Ids, updates \in ProfileUpdates : UpdateUserProfile(userId, updates)
    \/ \E userId \in Ids, oldPassword \in Secrets, newPassword \in NewSecrets :
          ChangePassword(userId, oldPassword, newPassword)

SpecProfile == Init /\ [][NextProfile]_vars

\* The address book: an account is created, addresses and orders are
\* added to it and its preferences are set.
NextAddress ==
    \/ Tick(ProfileSteps)
    \/ \E userData \in CartRegistrations : Register(userData)
    \/ \E userId \in Ids, address \in Addresses : AddUserAddress(userId, address)
    \/ \E userId \in Ids, order \in Orders : AddUserOrder(userId, order)
    \/ \E userId \in Ids : UpdateUserProfile(userId, [profile |-> NewsletterProfile])

SpecAddress == Init /\ [][NextAddress]_vars

\* Two tabs and one directory: this tab keeps the directory it loaded,
\* another tab loads the stored one, and both register and change
\* identities.
NextDirectory ==
    \/ \E userData \in CartRegistrations : Register(userData)
    \/ \E userId \in Ids : UpdateUserProfile(userId, [name |-> NameBo])
    \/ OtherTabRegister([Form EXCEPT !.email = EmailOther])
    \/ \E userId \in OtherTabIds : OtherTabChangePassword(userId, Secret1, Secret2)
    \/ StorageEvent
    \/ Tick(ProfileSteps)

SpecDirectory == Init /\ [][NextDirectory]_vars

\* One tab from page load to page load: accounts are created, the session
\* starts, ends and is validated, orders are added and identities are
\* rewritten, their id included.
NextPage ==
    \/ Tick(ProfileSteps)
    \/ \E userData \in ResetRegistrations : Register(userData)
    \/ Login(EmailOther, Secret1)
    \/ Logout
    \/ IsLoggedIn
    \/ \E userId \in KnownIds, updates \in IdUpdates : UpdateUserProfile(userId, updates)
    \/ \E userId \in KnownIds, order \in Orders : AddUserOrder(userId, order)
    \/ Reload

SpecPage == Init /\ [][NextPage]_vars

----------------------------------------------------------------------------
(* Vocabulary of the properties. *)

SameEmailIgnoringCase(a, b) == toLowerCase(a) = toLowerCase(b)

Registered(email) ==
    \E i \in DOMAIN users : SameEmailIgnoringCase(users[i].email, email)

Persisted(key) == JSON_parse(getItem(localStorage, key))

EmptyProfile == [addresses |-> <<>>, orders |-> <<>>, preferences |-> <<>>]

TwentyFourHours == 86400000

SessionOf(identity, loginTime) ==
    [id |-> identity.id, name |-> identity.name, email |-> identity.email,
     loginTime |-> toISOString(loginTime)]

----------------------------------------------------------------------------
\* C1: a register call whose fields pass validation and whose email matches
\* no identity of the directory, ignoring case, succeeds; the directory, in
\* memory and as persisted under 'users', is the old one with one identity
\* appended, which carries the lowercased email, the supplied secret and an
\* empty profile; and right after the call the session is the new identity
\* (isLoggedIn is true, the current user has its id), whatever the session
\* was before.
C1_RegisterFreshEmail ==
    [][\A d \in ValidRegistrations :
          (last'.op = "register" /\ ~Registered(d.email) /\ Register(d))
          => LET new == users'[Len(users')]
             IN  /\ last'.success
                 /\ Len(users') = Len(users) + 1
                 /\ SubSeq(users', 1, Len(users)) = users
                 /\ new.email = toLowerCase(d.email)
                 /\ new.password = d.password
                 /\ new.profile = EmptyProfile
                 /\ Persisted("users")' = users'
                 /\ currentUser' # Null
                 /\ currentUser'.id = new.id
                 /\ isLoggedIn(World', now').ret
      ]_vars

\* C1 witness: a second identity was just registered under an upper-case
\* email and is the session.
C1_Witness ==
    /\ last.op = "register" /\ last.success
    /\ Len(users) = 2
    /\ currentUser # Null /\ currentUser.id = users[2].id
    /\ currentUser.email = EmailLower

\* C2: a register call whose email equals, ignoring case, the email of an
\* identity of the directory does not succeed and leaves the directory (in
\* memory and persisted), the session and every persisted key as they were.
C2_RegisterDuplicateEmail ==
    [][\A d \in Registrations :
          (last'.op = "register" /\ Registered(d.email) /\ Register(d))
          => /\ ~last'.success
             /\ users' = users
             /\ currentUser' = currentUser
             /\ localStorage' = localStorage
      ]_vars

\* C2 witness: a registration was refused as a duplicate.
C2_Witness ==
    /\ last.op = "register" /\ ~last.success
    /\ last.duplicate
    /\ users # <<>>

\* C3: for every identity of the directory, login with its email in any
\* letter case and its stored secret succeeds, makes the session in memory
\* and under 'currentUser' {id, name, email, loginTime = now} of that
\* identity, and isLoggedIn at the same clock reading is true.
C3_LoginEveryIdentity ==
    [][\A i \in DOMAIN users, e \in LoginEmails :
          (last'.op = "login" /\ SameEmailIgnoringCase(e, users[i].email)
             /\ Login(e, users[i].password))
          => /\ last'.ret.success
             /\ currentUser' = SessionOf(users[i], now)
             /\ Persisted("currentUser")' = SessionOf(users[i], now)
             /\ isLoggedIn(World', now').ret
      ]_vars

\* C4: a login call that matches no identity returns the same result for an
\* unregistered email as for a registered email with a wrong secret, and
\* leaves the session, the persisted keys (session and remembered email
\* among them) and the directory as they were.
C4_LoginNoMatch ==
    [][\A e \in LoginEmails, p \in Secrets :
          (last'.op = "login"
             /\ ~(\E i \in DOMAIN users :
                    SameEmailIgnoringCase(users[i].email, e) /\ users[i].password = p)
             /\ Login(e, p))
          => /\ last'.ret = [success |-> FALSE, message |-> "Invalid email or password"]
             /\ users' = users
             /\ currentUser' = currentUser
             /\ localStorage' = localStorage
      ]_vars

\* C4 witness: a login failed while a user was authenticated and every
\* email a caller can try was registered, so the secret was the wrong one.
C4_Witness ==
    /\ last.op = "login" /\ ~last.ret.success
    /\ currentUser # Null
    /\ \A e \in LoginEmails : Registered(e)

\* C5: with a session present, isLoggedIn is true exactly when the session
\* is at most 24 hours old, and then changes nothing; when it is older,
\* isLoggedIn is false, the session in memory is cleared and 'currentUser'
\* is removed; with no session isLoggedIn is false, and only a successful
\* login (register logs in) brings a session back.
C5_SessionExpiry ==
    [][/\ (last'.op = "isLoggedIn" /\ IsLoggedIn /\ currentUser # Null)
          => IF now - getTime(currentUser.loginTime) <= TwentyFourHours
             THEN /\ last'.ret = TRUE
                  /\ UNCHANGED <<users, currentUser, localStorage, badge>>
             ELSE /\ last'.ret = FALSE
                  /\ currentUser' = Null
                  /\ "currentUser" \notin DOMAIN localStorage'
       /\ (last'.op = "isLoggedIn" /\ IsLoggedIn /\ currentUser = Null)
          => last'.ret = FALSE /\ currentUser' = Null
       /\ (currentUser = Null /\ currentUser' # Null)
          => /\ last'.op \in {"login", "register"}
             /\ (last'.op = "login" => last'.ret.success)
             /\ (last'.op = "register" => last'.success)
      ]_vars

\* C5 witness: isLoggedIn found a session older than 24 hours and cleared it.
C5_Witness ==
    /\ last.op = "isLoggedIn" /\ last.hadSession /\ last.ret = FALSE
    /\ currentUser = Null
    /\ "currentUser" \notin DOMAIN localStorage

----------------------------------------------------------------------------
(* The password reset flow. *)

FifteenMinutes == 900000

TokenRecordPresent == "passwordResetToken" \in DOMAIN localStorage

LatestIssued == issued[Len(issued)]

\* The last call presented a token and was turned down.
TokenRefused ==
    \/ last.op = "resetPassword" /\ ~last.ret.success
    \/ last.op = "validateResetToken" /\ ~last.ret.valid

TokenPresented == last.op \in {"resetPassword", "validateResetToken"}

\* C7: a reset token is single-use: when resetPassword succeeds with the
\* token of a request, the secret of the identity the request was made for
\* (the one with the requested email) is the new secret and the token
\* record is gone; and while no record is stored every resetPassword and
\* validateResetToken is turned down, a record coming back only by a new
\* requestPasswordReset.
C7_TokenSingleUse ==
    [][/\ \A tok \in Tokens, s \in NewSecrets :
            (last'.op = "resetPassword" /\ last'.ret.success /\ ResetPassword(tok, s))
            => /\ \A i \in DOMAIN users :
                      SameEmailIgnoringCase(users[i].email,
                                            Persisted("passwordResetToken").email)
                      => users'[i].password = s
               /\ ~TokenRecordPresent'
       /\ (TokenPresented' /\ ~TokenRecordPresent) => TokenRefused'
       /\ (~TokenRecordPresent /\ TokenRecordPresent')
          => last'.op = "requestPasswordReset"
      ]_vars

\* C8: validateResetToken with the outstanding token, created at c, answers
\* valid with the email of the request exactly when now <= c + 15 minutes
\* and then changes nothing; later it answers invalid and removes the
\* record, though no reset was tried; and with no record stored every
\* validateResetToken and resetPassword is turned down and stores none.
C8_TokenExpiry ==
    [][/\ \A tok \in Tokens :
            (/\ last'.op = "validateResetToken"
             /\ TokenRecordPresent
             /\ Persisted("passwordResetToken").token = tok
             /\ ValidateResetToken(tok))
            => IF now <= LatestIssued.at + FifteenMinutes
               THEN /\ last'.ret = [valid |-> TRUE, email |-> LatestIssued.email]
                    /\ UNCHANGED <<users, currentUser, localStorage>>
               ELSE /\ ~last'.ret.valid
                    /\ ~TokenRecordPresent'
                    /\ UNCHANGED users
       /\ (TokenPresented' /\ ~TokenRecordPresent)
          => TokenRefused' /\ ~TokenRecordPresent' /\ UNCHANGED users
      ]_vars

\* C8 witness: validateResetToken met the outstanding token after its 15
\* minutes and removed the record.
C8_Witness ==
    /\ last.op = "validateResetToken" /\ ~last.ret.valid
    /\ issued # <<>> /\ last.token = LatestIssued.token
    /\ now > LatestIssued.at + FifteenMinutes
    /\ ~TokenRecordPresent

\* C9: at most one reset token is outstanding: the stored record always
\* carries the token handed out last, a successful request replaces the
\* record by its own, and a call presenting any other token (an earlier
\* one among them) is turned down and changes no identity.
C9_OneOutstandingToken ==
    [][/\ TokenRecordPresent'
          => issued' # <<>> /\ Persisted("passwordResetToken")'.token = LatestIssued'.token
       /\ (last'.op = "requestPasswordReset" /\ last'.success)
          => /\ Len(issued') = Len(issued) + 1
             /\ TokenRecordPresent'
             /\ Persisted("passwordResetToken")'.expires = now + FifteenMinutes
       /\ (TokenPresented' /\ issued # <<>> /\ last'.token # LatestIssued.token)
          => TokenRefused' /\ UNCHANGED users
      ]_vars

\* C9 witness: after a second request the token of the first was presented
\* to resetPassword and turned down, the second still being outstanding.
C9_Witness ==
    /\ Len(issued) = 2 /\ issued[1].token # issued[2].token
    /\ last.op = "resetPassword" /\ last.token = issued[1].token
    /\ ~last.ret.success
    /\ TokenRecordPresent

----------------------------------------------------------------------------
(* Vocabulary of the cart properties. *)

\* The cart keys of the storage: the anonymous one and one per identity.
CartKeys == {"cart"} \cup {"cart_" \o users[i].id : i \in DOMAIN users}

StoredCart(key) ==
    IF getItem(localStorage, key) = Null THEN <<>> ELSE Persisted(key)

\* The addToCart calls made for a product against a key, the call counted
\* for the key it saved the cart under, or for the key it read the cart from.
CallsSaving(name, key) ==
    Cardinality({i \in DOMAIN addCalls :
                    addCalls[i].name = name /\ addCalls[i].savedKey = key})

CallsReading(name, key) ==
    Cardinality({i \in DOMAIN addCalls :
                    addCalls[i].name = name /\ addCalls[i].readKey = key})

\* The cart of the session when there is one, the anonymous cart otherwise.
ActiveCart ==
    StoredCart(IF currentUser # Null THEN "cart_" \o currentUser.id ELSE "cart")

SessionExpired ==
    /\ currentUser # Null
    /\ now - getTime(currentUser.loginTime) > TwentyFourHours

BadgeShowing(total) ==
    [present |-> TRUE, innerText |-> total,
     display |-> IF total > 0 THEN "flex" ELSE "none"]

\* C6: after any sequence of addToCart calls from empty carts, the cart
\* stored under each cart key has no two lines with the same product name,
\* every line has a quantity of at least 1, and the quantity of a line is
\* the number of addToCart calls made for its product against that key,
\* whether a call counts for the key it saved under or for the key it read.
C6_CartLines ==
    \A key \in CartKeys :
        LET cart == StoredCart(key)
        IN  /\ \A i, j \in DOMAIN cart : cart[i].name = cart[j].name => i = j
            /\ \A i \in DOMAIN cart : cart[i].quantity >= 1
            /\ \/ \A i \in DOMAIN cart :
                      cart[i].quantity = CallsSaving(cart[i].name, key)
               \/ \A i \in DOMAIN cart :
                      cart[i].quantity = CallsReading(cart[i].name, key)

\* C10 as stated: a badge refresh writes into the badge element the sum of
\* the quantities of the active cart and shows the element exactly when
\* that sum is positive; on a page without the element it changes nothing.
C10_RefreshBadgeChangesNothing ==
    [][(last'.op = "updateCartBadge" /\ UpdateCartBadge)
       => IF badge.present
          THEN badge' = BadgeShowing(Sum(ActiveCart'))
          ELSE UNCHANGED <<users, currentUser, localStorage, badge>>
      ]_vars

\* C10: a badge refresh first validates the session: a session older than
\* 24 hours is cleared, in memory and in storage ('currentUser' and
\* 'rememberMe' are removed), a younger one and the storage are left as
\* they are.  Then it writes into the badge element the sum of the
\* quantities of the active cart and shows the element exactly when that
\* sum is positive; on a page without the element it writes nothing.  No
\* identity and no cart is changed.
C10_RefreshBadge ==
    [][(last'.op = "updateCartBadge" /\ UpdateCartBadge)
       => /\ IF badge.present
             THEN badge' = BadgeShowing(Sum(ActiveCart'))
             ELSE badge' = badge
          /\ IF SessionExpired
             THEN /\ currentUser' = Null
                  /\ localStorage' =
                        removeItem(removeItem(localStorage, "currentUser"), "rememberMe")
             ELSE UNCHANGED <<currentUser, localStorage>>
          /\ UNCHANGED users
          /\ \A key \in CartKeys : StoredCart(key)' = StoredCart(key)
      ]_vars

\* C10 witness: on a page without a badge element a refresh met a session
\* older than 24 hours and cleared it, the identity's cart holding a line.
C10_Witness ==
    /\ last.op = "updateCartBadge" /\ last.hadSession
    /\ ~badge.present
    /\ currentUser = Null
    /\ getItem(localStorage, "currentUser") = Null
    /\ \E key \in CartKeys \ {"cart"} : StoredCart(key) # <<>>

----------------------------------------------------------------------------
\* C11: when the notification that another tab removed the persisted
\* session key is delivered to this tab, this tab clears its in-memory
\* session and writes no persisted key: the storage, with a session a third
\* tab persisted meanwhile and the remember-me flag, is as it was.
C11_CrossTabLogout ==
    [][(/\ last'.op = "storage"
        /\ inbox # <<>>
        /\ Head(inbox).key = "currentUser" /\ Head(inbox).newValue = Null
        /\ StorageEvent)
       => /\ currentUser' = Null
          /\ localStorage' = localStorage
      ]_vars

----------------------------------------------------------------------------
\* C12: from any state, logout leaves the in-memory session null and the
\* keys 'currentUser' and 'rememberMe' absent from the storage; the
\* directory in memory and every other stored key ('users',
\* 'rememberedUser', the reset token record, the cart keys) are as before;
\* and isLoggedIn is false right afterwards.
C12_Logout ==
    [][(last'.op = "logout" /\ Logout)
       => /\ currentUser' = Null
          /\ DOMAIN localStorage' = DOMAIN localStorage \ {"currentUser", "rememberMe"}
          /\ \A key \in DOMAIN localStorage' : localStorage'[key] = localStorage[key]
          /\ users' = users
          /\ ~isLoggedIn(World', now').ret
      ]_vars

\* C12 witness: logout ended a session while the storage held the
\* directory, a remembered email, a reset token record, the anonymous cart
\* and the cart of the identity.
C12_Witness ==
    /\ last.op = "logout" /\ last.hadSession
    /\ currentUser = Null
    /\ {"users", "rememberedUser", "passwordResetToken", "cart"} \subseteq DOMAIN localStorage
    /\ \E i \in DOMAIN users : ("cart_" \o users[i].id) \in DOMAIN localStorage

----------------------------------------------------------------------------
\* C13: changePassword(id, old, new) fails for an id nobody has, else for
\* an old secret that is not the stored one, else for a new secret of fewer
\* than 6 characters, and then leaves directory, session and storage as
\* they are; otherwise it succeeds, the stored secret of the identity is
\* new, and login with the identity's email succeeds with new and, old
\* and new being different, fails with old.
C13_ChangePassword ==
    [][\A id \in Ids, old \in Secrets, new \in NewSecrets :
          (last'.op = "changePassword" /\ ChangePassword(id, old, new))
          => LET user == getUserProfile(World, id)
             IN  IF user = Null
                 THEN /\ last'.ret = [success |-> FALSE, message |-> "User not found"]
                      /\ UNCHANGED <<users, currentUser, localStorage>>
                 ELSE IF user.password # old
                 THEN /\ last'.ret = [success |-> FALSE,
                                      message |-> "Current password is incorrect"]
                      /\ UNCHANGED <<users, currentUser, localStorage>>
                 ELSE IF Len(new) < 6
                 THEN /\ last'.ret = [success |-> FALSE,
                                      message |-> "Password must be at least 6 characters long"]
                      /\ UNCHANGED <<users, currentUser, localStorage>>
                 ELSE /\ last'.ret.success
                      /\ getUserProfile(World', id).password = new
                      /\ login(World', now', user.email, new).ret.success
                      /\ old # new => ~login(World', now', user.email, old).ret.success
      ]_vars

----------------------------------------------------------------------------
\* C14: in every reachable state the session record, in memory and as
\* persisted under 'currentUser', has the fields id, name, email and
\* loginTime and no other: never the secret, never the profile.
SessionFields == {"id", "name", "email", "loginTime"}

C14_SessionFields ==
    /\ currentUser # Null => DOMAIN currentUser = SessionFields
    /\ "currentUser" \in DOMAIN localStorage
       => DOMAIN Persisted("currentUser") = SessionFields

----------------------------------------------------------------------------
\* C15: an addToCart call saves the cart under the key it read it from,
\* which is the cart of the identity when a session is active at the read
\* and the anonymous cart otherwise, also when the clock advances between
\* the read and the write; and the cart under every other key is as before.
C15_SameCartKey ==
    [][\A name \in Products, d1 \in ClockDrift, d2 \in ClockDrift :
          (last'.op = "addToCart" /\ AddToCart(name, d1, d2))
          => LET call == addCalls'[Len(addCalls')]
                 active == isLoggedIn(World, now)
             IN  /\ call.readKey = IF active.ret
                                   THEN "cart_" \o currentUser.id ELSE "cart"
                 /\ call.savedKey = call.readKey
                 /\ \A key \in CartKeys \ {call.readKey} :
                        StoredCart(key)' = StoredCart(key)
      ]_vars

----------------------------------------------------------------------------
\* C16: after every completed register, login, logout and addToCart the
\* badge element shows the total quantity of the cart that is active after
\* the call: the cart of the identity just authenticated after a
\* successful login or register, not the anonymous cart.
Completed ==
    \/ last.op \in {"logout", "addToCart"}
    \/ last.op = "register" /\ last.success
    \/ last.op = "login" /\ last.ret.success

C16_BadgeFollowsActions ==
    [][(Completed' /\ badge'.present) => badge'.innerText = Sum(ActiveCart')]_vars

----------------------------------------------------------------------------
\* C17: resetPassword checks, in this order: no token record, another
\* token string than the stored one, expiry, a new secret of fewer than 6
\* characters.  A call failing on the token string or on the short secret
\* leaves record and directory as they are, and a resetPassword with the
\* stored token and a valid secret, now or at any time up to the expiry,
\* then succeeds; the record is removed only on expiry and on success.
ResetStillSucceeds(w, from) ==
    LET record == JSON_parse(getItem(w.ls, "passwordResetToken"))
    IN  \A t \in {from, record.expires} :
           (from <= t /\ t <= record.expires)
           => resetPassword(w, t, record.token, Secret2).ret.success

C17_ResetChecksInOrder ==
    [][\A tok \in Tokens, s \in NewSecrets :
          (last'.op = "resetPassword" /\ ResetPassword(tok, s))
          => LET record == Persisted("passwordResetToken")
             IN  IF ~TokenRecordPresent
                 THEN /\ last'.ret = [success |-> FALSE,
                                      message |-> "Invalid or expired reset token"]
                      /\ UNCHANGED <<users, currentUser, localStorage>>
                 ELSE IF record.token # tok
                 THEN /\ last'.ret = [success |-> FALSE, message |-> "Invalid reset token"]
                      /\ UNCHANGED <<users, currentUser, localStorage>>
                      /\ ResetStillSucceeds(World', now')
                 ELSE IF now > record.expires
                 THEN /\ last'.ret = [success |-> FALSE,
                                      message |-> "Reset token has expired"]
                      /\ ~TokenRecordPresent'
                      /\ UNCHANGED users
                 ELSE IF Len(s) < 6
                 THEN /\ last'.ret = [success |-> FALSE,
                                      message |-> "Password must be at least 6 characters long"]
                      /\ UNCHANGED <<users, currentUser, localStorage>>
                      /\ ResetStillSucceeds(World', now')
                 ELSE /\ last'.ret.success
                      /\ ~TokenRecordPresent'
      ]_vars

\* C17 witness: a resetPassword with the stored token was turned down for
\* its short secret before the expiry, and the record is still stored.
C17_Witness ==
    /\ last.op = "resetPassword"
    /\ last.ret.message = "Password must be at least 6 characters long"
    /\ TokenRecordPresent
    /\ last.token = Persisted("passwordResetToken").token
    /\ now <= Persisted("passwordResetToken").expires

----------------------------------------------------------------------------
\* C18: updateUserProfile with an id nobody has fails and changes nothing;
\* otherwise it succeeds, the stored identity with that id has the fields
\* named in the updates overwritten and its other fields as before, every
\* other identity is as before, the directory is persisted, and the
\* session, in memory and persisted, has the same fields overwritten when
\* it is a session of that id and is untouched otherwise.
Overwritten(old, new, updates) ==
    /\ DOMAIN new = DOMAIN old \cup DOMAIN updates
    /\ \A f \in DOMAIN updates : new[f] = updates[f]
    /\ \A f \in DOMAIN old \ DOMAIN updates : new[f] = old[f]

C18_UpdateUserProfile ==
    [][\A id \in Ids, updates \in ProfileUpdates :
          (last'.op = "updateUserProfile" /\ UpdateUserProfile(id, updates))
          => LET i == findIndex({k \in DOMAIN users : users[k].id = id})
             IN  IF i = 0
                 THEN /\ ~last'.ret.success
                      /\ UNCHANGED <<users, currentUser, localStorage>>
                 ELSE /\ last'.ret.success
                      /\ DOMAIN users' = DOMAIN users
                      /\ \A j \in DOMAIN users \ {i} : users'[j] = users[j]
                      /\ Overwritten(users[i], users'[i], updates)
                      /\ Persisted("users")' = users'
                      /\ \A key \in DOMAIN localStorage \ {"users", "currentUser"} :
                             key \in DOMAIN localStorage'
                             /\ localStorage'[key] = localStorage[key]
                      /\ IF currentUser # Null /\ currentUser.id = id
                         THEN /\ Overwritten(currentUser, currentUser', updates)
                              /\ Persisted("currentUser")' = currentUser'
                         ELSE /\ UNCHANGED currentUser
                              /\ getItem(localStorage', "currentUser")
                                 = getItem(localStorage, "currentUser")
      ]_vars

\* C18 witness: of two identities with different ids the second, whose
\* session it is, was renamed, in the directory and in the session, and the
\* first was not.
C18_Witness ==
    /\ last.op = "updateUserProfile" /\ last.ret.success
    /\ Len(users) = 2 /\ users[1].id # users[2].id
    /\ users[1].name = NameAl /\ users[2].name = NameBo
    /\ currentUser # Null /\ currentUser.id = users[2].id
    /\ currentUser.name = NameBo

----------------------------------------------------------------------------
\* C19: no call removes an address: at every step the address list of
\* every identity is its former list, in place and in order, with at most
\* new addresses appended.
C19_AddressesOnlyGrow ==
    [][\A i \in DOMAIN users :
          /\ i \in DOMAIN users'
          /\ LET old == addressesOf(users[i].profile)
                 new == addressesOf(users'[i].profile)
             IN  /\ Len(new) >= Len(old)
                 /\ SubSeq(new, 1, Len(old)) = old
      ]_vars

----------------------------------------------------------------------------
\* C20: in every reachable state the email of every identity of the
\* directory is lowercase and no two identities have the same email.
C20_EmailsLowercaseDistinct ==
    \A i, j \in DOMAIN users :
        /\ users[i].email = toLowerCase(users[i].email)
        /\ users[i].email = users[j].email => i = j

----------------------------------------------------------------------------
\* C21: in every reachable state no two identities of the directory have
\* the same id, whenever they were registered, so that no two identities
\* have the same cart key.
C21_IdsDistinct ==
    \A i, j \in DOMAIN users :
        /\ users[i].id = users[j].id => i = j
        /\ ("cart_" \o users[i].id) = ("cart_" \o users[j].id) => i = j

----------------------------------------------------------------------------
\* C22: with two tabs on one store, each with the directory it loaded, no
\* call removes an identity from the persisted directory: at every step
\* every identity persisted under 'users' is still persisted there, and
\* with the secret it had unless the step is a change of secret.
PersistedUsers == OtherTab.users

C22_DirectoryKeepsIdentities ==
    [][\A i \in DOMAIN PersistedUsers :
          \E j \in DOMAIN PersistedUsers' :
             /\ PersistedUsers'[j].email = PersistedUsers[i].email
             /\ last'.op # "otherTabChangePassword"
                => PersistedUsers'[j].password = PersistedUsers[i].password
      ]_vars

\* C23: in one tab, after the page load and after every call, the session
\* in memory and the record stored under 'currentUser' agree: both are
\* absent, or both are present with equal contents.
C23_SessionAgrees ==
    IF currentUser = Null
    THEN "currentUser" \notin DOMAIN localStorage
    ELSE /\ "currentUser" \in DOMAIN localStorage
         /\ Persisted("currentUser") = currentUser

====
